---- MODULE Spec2Model ----
(***************************************************************************)
(* Model of rclcpp/executors/executor_entities_collection.cpp:             *)
(*   ExecutorEntitiesCollection::empty / clear,                            *)
(*   build_entities_collection  (rebuild of the handle-indexed collection) *)
(*   ready_executables          (resolution of a wait result to a queue of *)
(*                               AnyExecutable).                           *)
(* Callback groups and entities are shared_ptr-owned objects: an object is *)
(* alive while its outside owner or any strong reference taken by the code *)
(* (group_map of a running pass, a queued AnyExecutable) still holds it.   *)
(* The elements of the rcl wait set arrays are read once each, in index    *)
(* order; the model draws each element when the loop reads it.             *)
(***************************************************************************)
EXTENDS Integers, Sequences, FiniteSets, TLC

\* ---------------------------------------------------------------- bounds
MaxGroupSeq == 2   \* length of the callback_groups vector given to a rebuild
MaxSlots    == 3   \* rcl_wait_set array elements read over a run
MaxCalls    == 3   \* calls of build_entities_collection and ready_executables
MaxWork     == 6   \* calls, outside events and array elements read in a run
MaxEvents   == 2   \* outside events: flag writes, releases, timer expirations
MaxBacklog  == 1   \* items still queued when ready_executables is called

\* ---------------------------------------------------------------- universe
Threads  == {1, 2}
Groups   == {"g1", "g2"}
Entities == {"t1", "s1", "s2", "v1", "c1", "w1"}
Kinds    == <<"timer", "subscription", "service", "client", "waitable">>
KindSet  == {Kinds[i] : i \in 1..Len(Kinds)}

NullGroup  == "null"
NullHandle == 0
GuardHandle == 61
NoData     == 0

KindOf(e) ==
  CASE e = "t1" -> "timer"
    [] e \in {"s1", "s2"} -> "subscription"
    [] e = "v1" -> "service"
    [] e = "c1" -> "client"
    [] OTHER -> "waitable"

\* get_*_handle().get() / waitable.get(): the address that keys the mapping
HandleOf(e) ==
  CASE e = "t1" -> 11
    [] e = "s1" -> 21
    [] e = "s2" -> 22
    [] e = "v1" -> 31
    [] e = "c1" -> 41
    [] OTHER -> 51

EntitiesOfKind(k) == {e \in Entities : KindOf(e) = k}
HandlesOfKind(k)  == {HandleOf(e) : e \in EntitiesOfKind(k)}
Timers     == EntitiesOfKind("timer")
Waitables  == EntitiesOfKind("waitable")

\* the entities each callback group holds (subscription s1 is held by both)
Members(g) ==
  IF g = "g1" THEN {"t1", "s1", "w1"} ELSE {"s1", "s2", "v1", "c1"}

KindIndex(k) == CHOOSE i \in 1..Len(Kinds) : Kinds[i] = k

VARIABLES
  groupOwned,     \* group -> its outside owner (node) still holds it
  entOwned,       \* entity -> its outside owner still holds it
  flag,           \* group -> CallbackGroup::can_be_taken_from()
  due,            \* timer -> a firing is pending and unclaimed
  collection,     \* ExecutorEntitiesCollection: kind -> (handle -> entry)
  guard_conditions, \* ExecutorEntitiesCollection::guard_conditions (handles)
  pc,             \* thread -> position in ready_executables
  ii,             \* thread -> loop index of the current block
  group_map,      \* thread -> the pass-local cache (group -> CachedCallbackGroup)
  executables,    \* thread -> its std::deque<AnyExecutable>
  added,          \* thread -> local counter `added`
  ret,            \* thread -> value returned by the last call
  worder,         \* thread -> iteration order of collection.waitables
  \* ---- bookkeeping that the code does not hold
  kindOfResult,   \* thread -> wait_result.kind() of the current/last call
  entry,          \* thread -> the deque as it was on entry of the call
  seen,           \* thread -> handles read so far in the current block
  dup,            \* thread -> some array of this call listed a handle twice
  touched,        \* thread -> groups whose flag was written since the call began
  last,           \* thread -> outcome of the latest loop iteration
  passes,         \* thread -> calls started
  ncall,          \* thread -> TimerBase::call() invocations in this call
  nready,         \* thread -> Waitable::is_ready() invocations in this call
  ntake,          \* thread -> waitable -> take_data() invocations in this call
  taken,          \* waitable -> take_data() invocations overall
  fires,          \* timer -> expirations so far
  claims,         \* timer -> call() invocations that returned true
  rebuilds,       \* build_entities_collection calls started
  events,         \* outside events so far
  slots,          \* wait set array elements read so far
  quiet,          \* no flag or liveness change since the latest rebuild
  lastGroups,     \* the argument of the latest rebuild (while quiet)
  prev,           \* the collection before the latest rebuild (while twice)
  twice,          \* the latest rebuild repeated the one before it, in quiet
  cycle           \* group -> what the latest rebuild did with it

envVars   == <<groupOwned, entOwned, flag, due, fires, events>>
collVars  == <<collection, guard_conditions>>
buildVars == <<rebuilds, quiet, lastGroups, prev, twice, cycle>>
passVars  == <<pc, ii, group_map, executables, added, ret, worder, kindOfResult,
               entry, seen, dup, touched, last, passes, ncall, nready, ntake, taken,
               claims, slots>>
vars == <<envVars, collVars, buildVars, passVars>>

\* ---------------------------------------------------------------- helpers
Range(s) == {s[i] : i \in 1..Len(s)}

\* sequences over S of length at most n
RECURSIVE SeqsUpTo(_, _)
SeqsUpTo(S, n) ==
  IF n = 0 THEN {<<>>}
  ELSE LET shorter == SeqsUpTo(S, n - 1)
       IN  shorter \cup {Append(s, x) : s \in {t \in shorter : Len(t) = n - 1}, x \in S}

\* all orders in which a finite set can be enumerated
RECURSIVE Orders(_)
Orders(S) ==
  IF S = {} THEN {<<>>}
  ELSE UNION {{<<x>> \o s : s \in Orders(S \ {x})} : x \in S}

InPass(th) == pc[th] \notin {"idle", "done"}

\* calls made so far
Calls == rebuilds + passes[1] + passes[2]

\* what the run has used of its budget
Work == Calls + events + slots

\* weak_ptr<CallbackGroup>::lock() succeeds: some shared_ptr still owns g
GroupLive(g) ==
  \/ groupOwned[g]
  \/ \E th \in Threads : \E c \in group_map[th] : c.group = g /\ c.ptr = g
  \/ \E th \in Threads : \E i \in 1..Len(executables[th]) :
        executables[th][i].callback_group = g

\* weak_ptr<Entity>::lock() succeeds: some shared_ptr still owns e
EntityLive(e) ==
  \/ entOwned[e]
  \/ \E th \in Threads : \E i \in 1..Len(executables[th]) :
        executables[th][i].entity = e

\* EntityCollection lookups (handle-keyed map, one entry per handle)
Keys(m) == {x.handle : x \in m}

\* (mutation) the lookup ignores the key
FindAny(m, h) == CHOOSE x \in m : TRUE

\* collection.<kind>.find(handle)->second
Find(m, h) == CHOOSE x \in m : x.handle = h

\* (mutation) insert_or_assign: a present key gets the new value
MapInsertOrAssign(m, h, e, g) ==
  {x \in m : x.handle # h} \cup {[handle |-> h, entity |-> e, callback_group |-> g]}

\* std map insert({key, value}): no effect when the key is already present
MapInsert(m, h, e, g) ==
  IF h \in Keys(m) THEN m
  ELSE m \cup {[handle |-> h, entity |-> e, callback_group |-> g]}

\* CallbackGroup::collect_all_ptrs: the members whose weak_ptr still locks
CollectAllPtrs(g) == {e \in Members(g) : EntityLive(e)}

\* (mutation) guard_conditions is not tested
EmptyOfMappings ==
  /\ collection["subscription"] = {}
  /\ collection["timer"] = {}
  /\ collection["client"] = {}
  /\ collection["service"] = {}
  /\ collection["waitable"] = {}

\* ExecutorEntitiesCollection::empty()
Empty ==
  /\ collection["subscription"] = {}
  /\ collection["timer"] = {}
  /\ guard_conditions = {}
  /\ collection["client"] = {}
  /\ collection["service"] = {}
  /\ collection["waitable"] = {}

\* a collection with every mapping empty
ClearedCollection == [k \in KindSet |-> {}]

\* (mutation) the mappings are not cleared
NoClear(coll) == coll

\* ExecutorEntitiesCollection::clear(), on the five entity mappings
Clear(coll) == [k \in KindSet |-> {}]

\* ExecutorEntitiesCollection::clear(), on guard_conditions
ClearGuards(gc) == {}

NoStep ==
  [kind |-> "none", handle |-> NullHandle, found |-> FALSE, alive |-> FALSE,
   ready |-> FALSE, group |-> NullGroup, consulted |-> FALSE, ptr |-> NullGroup,
   can_be_taken_from |-> FALSE, called |-> FALSE, claimed |-> FALSE,
   pushed |-> FALSE, data |-> NoData]

\* ---------------------------------------------------------------- initial state
Init ==
  /\ groupOwned = [g \in Groups |-> TRUE]
  /\ entOwned = [e \in Entities |-> TRUE]
  /\ flag = [g \in Groups |-> TRUE]
  /\ due = [t \in Timers |-> FALSE]
  /\ collection = ClearedCollection
  /\ guard_conditions = {}
  /\ pc = [th \in Threads |-> "idle"]
  /\ ii = [th \in Threads |-> 0]
  /\ group_map = [th \in Threads |-> {}]
  /\ executables = [th \in Threads |-> <<>>]
  /\ added = [th \in Threads |-> 0]
  /\ ret = [th \in Threads |-> 0]
  /\ worder = [th \in Threads |-> <<>>]
  /\ kindOfResult = [th \in Threads |-> "Empty"]
  /\ entry = [th \in Threads |-> <<>>]
  /\ seen = [th \in Threads |-> {}]
  /\ last = [th \in Threads |-> NoStep]
  /\ dup = [th \in Threads |-> FALSE]
  /\ touched = [th \in Threads |-> {}]
  /\ passes = [th \in Threads |-> 0]
  /\ ncall = [th \in Threads |-> 0]
  /\ nready = [th \in Threads |-> 0]
  /\ ntake = [th \in Threads |-> [w \in Waitables |-> 0]]
  /\ taken = [w \in Waitables |-> 0]
  /\ fires = [t \in Timers |-> 0]
  /\ claims = [t \in Timers |-> 0]
  /\ rebuilds = 0 /\ events = 0 /\ slots = 0
  /\ quiet = FALSE /\ twice = FALSE
  /\ lastGroups = <<>>
  /\ prev = ClearedCollection
  /\ cycle = [g \in Groups |-> "none"]

\* ---------------------------------------------------------------- environment
\* the two latest calls are no longer two rebuilds in a row over the same state
Disturb ==
  /\ quiet' = FALSE /\ twice' = FALSE
  /\ lastGroups' = <<>> /\ prev' = ClearedCollection

\* the owner of a callback group drops its shared_ptr
ReleaseGroup ==
  \E g \in Groups :
    /\ groupOwned[g]
    /\ events < MaxEvents /\ Work < MaxWork
    /\ events' = events + 1
    /\ groupOwned' = [groupOwned EXCEPT ![g] = FALSE]
    /\ Disturb
    /\ UNCHANGED <<entOwned, flag, due, fires, collVars, passVars, rebuilds, cycle>>

\* the owner of an entity drops its shared_ptr
ReleaseEntity ==
  \E e \in Entities :
    /\ entOwned[e]
    /\ events < MaxEvents /\ Work < MaxWork
    /\ events' = events + 1
    /\ entOwned' = [entOwned EXCEPT ![e] = FALSE]
    /\ Disturb
    /\ UNCHANGED <<groupOwned, flag, due, fires, collVars, passVars, rebuilds, cycle>>

\* the dispatcher stores can_be_taken_from (callback begins / completes)
SetFlag ==
  \E g \in Groups :
    /\ GroupLive(g)
    /\ events < MaxEvents /\ Work < MaxWork
    /\ events' = events + 1
    /\ flag' = [flag EXCEPT ![g] = ~flag[g]]
    /\ touched' = [th \in Threads |-> IF InPass(th) THEN touched[th] \cup {g} ELSE {}]
    /\ Disturb
    /\ UNCHANGED <<groupOwned, entOwned, due, fires, collVars, rebuilds, cycle,
                   pc, ii, group_map, executables, added, ret, worder, kindOfResult,
                   entry, seen, dup, last, passes, ncall, nready, ntake, taken,
                   claims, slots>>

\* a timer's period elapses
TimerExpire ==
  \E t \in Timers :
    /\ ~due[t]
    /\ events < MaxEvents /\ Work < MaxWork
    /\ events' = events + 1
    /\ due' = [due EXCEPT ![t] = TRUE]
    /\ fires' = [fires EXCEPT ![t] = fires[t] + 1]
    /\ UNCHANGED <<groupOwned, entOwned, flag, collVars, passVars, buildVars>>

\* ---------------------------------------------------------------- rebuild
GroupSeqs == SeqsUpTo(Groups, MaxGroupSeq)

\* the inserts of one group's collect_all_ptrs callbacks into mapping k
RECURSIVE InsertAll(_, _, _)
InsertAll(m, es, g) ==
  IF es = {} THEN m
  ELSE LET e == CHOOSE x \in es : TRUE
       IN  InsertAll(MapInsert(m, HandleOf(e), e, g), es \ {e}, g)

\* (mutation) the flag is read with exchange(false)
FlagAfterExchange(f, g) == [f EXCEPT ![g] = FALSE]

\* (mutation) the rebuild marks the group it examined as available
FlagAfterStore(f, g) == [f EXCEPT ![g] = TRUE]

\* the value of can_be_taken_from after build_entities_collection read it
\* with load(): the read leaves the flag alone
FlagAfterLoad(f, g) == f

\* (mutation) the flag of the group is not tested
BuildGroupAnyFlag(coll, g) ==
  IF ~GroupLive(g) THEN coll
  ELSE [k \in KindSet |->
          InsertAll(coll[k], {e \in CollectAllPtrs(g) : KindOf(e) = k}, g)]

\* body of the for loop over callback_groups, for one weak_group_ptr
BuildGroup(coll, g) ==
  IF ~GroupLive(g) THEN coll
  ELSE IF flag[g]
       THEN [k \in KindSet |->
               InsertAll(coll[k], {e \in CollectAllPtrs(g) : KindOf(e) = k}, g)]
       ELSE coll

\* the loop over callback_groups, from position i on
RECURSIVE BuildLoop(_, _, _)
BuildLoop(coll, gs, i) ==
  IF i > Len(gs) THEN coll
  ELSE BuildLoop(BuildGroup(coll, gs[i]), gs, i + 1)

\* the flags after the loop read them
RECURSIVE FlagsAfterLoop(_, _, _)
FlagsAfterLoop(f, gs, i) ==
  IF i > Len(gs) THEN f
  ELSE FlagsAfterLoop(IF GroupLive(gs[i]) THEN FlagAfterLoad(f, gs[i]) ELSE f, gs, i + 1)

\* what a rebuild over gs does with group g: "skipped" when it finds g live with
\* flag false, "back" when it indexes g after the rebuild before had skipped it
CycleAfter(gs, g) ==
  IF g \notin Range(gs) \/ ~GroupLive(g) THEN "none"
  ELSE IF ~flag[g] THEN "skipped"
  ELSE IF cycle[g] = "skipped" THEN "back"
  ELSE "none"

\* build_entities_collection(callback_groups, collection)
BuildEntitiesCollection ==
  \E gs \in GroupSeqs :
    /\ \A th \in Threads : ~InPass(th)
    /\ Calls < MaxCalls /\ Work < MaxWork
    /\ rebuilds' = rebuilds + 1
    /\ collection' = BuildLoop(Clear(collection), gs, 1)
    /\ guard_conditions' = ClearGuards(guard_conditions)
    /\ flag' = FlagsAfterLoop(flag, gs, 1)
    /\ twice' = (quiet /\ gs = lastGroups)
    /\ prev' = IF quiet /\ gs = lastGroups THEN collection ELSE ClearedCollection
    /\ lastGroups' = gs
    /\ quiet' = TRUE
    /\ cycle' = [g \in Groups |-> CycleAfter(gs, g)]
    /\ UNCHANGED <<groupOwned, entOwned, due, fires, events, passVars>>

\* the executor registers a guard condition in the collection
AddGuardCondition ==
  /\ \A th \in Threads : ~InPass(th)
  /\ guard_conditions = {}
  /\ guard_conditions' = {GuardHandle}
  /\ Disturb
  /\ UNCHANGED <<envVars, passVars, rebuilds, cycle, collection>>

\* the executor calls collection.clear()
ClearCollection ==
  /\ \A th \in Threads : ~InPass(th)
  /\ collection' = Clear(collection)
  /\ guard_conditions' = ClearGuards(guard_conditions)
  /\ Disturb
  /\ UNCHANGED <<envVars, passVars, rebuilds, cycle>>

\* ---------------------------------------------------------------- resolve
ResultKinds == {"Ready", "Timeout", "Empty"}

\* (mutation) only a timeout counts as not ready
ResultReadyUnlessTimeout(kd) == kd # "Timeout"

\* wait_result.kind() == WaitResultKind::Ready
ResultReady(kd) == kd = "Ready"

\* the block after block k (timers, subscriptions, services, clients, waitables)
NextKind(k) == Kinds[KindIndex(k) + 1]

\* (mutation) the group is upgraded and its flag read again at every call
GroupCacheRefresh(gm, g) ==
  {c \in gm : c.group # g}
    \cup {[group |-> g,
           ptr |-> IF GroupLive(g) THEN g ELSE NullGroup,
           can_be_taken_from |-> IF GroupLive(g) THEN flag[g] ELSE FALSE]}

\* the lambda group_cache applied to group_map: the map after the call
GroupCache(gm, g) ==
  IF \E c \in gm : c.group = g THEN gm
  ELSE gm \cup {[group |-> g,
                 ptr |-> IF GroupLive(g) THEN g ELSE NullGroup,
                 can_be_taken_from |-> IF GroupLive(g) THEN flag[g] ELSE FALSE]}

\* group_map.find(weak_cbg_ptr)->second
Cached(gm, g) == CHOOSE c \in gm : c.group = g

\* (mutation) a failed upgrade of the entity is not noticed
LockFailedNever(e) == FALSE

\* auto entity = entity_iter->second.entity.lock(); if (!entity) continue;
LockFailed(e) == ~EntityLive(e)

\* (mutation) the admission check is lost
SkipGroupNever(info) == FALSE

\* (mutation) the negation of the flag is lost
SkipGroupInverted(info) == info.ptr # NullGroup /\ info.can_be_taken_from

\* (mutation) the test of group_info.ptr is lost
SkipGroupNoPtr(info) == ~info.can_be_taken_from

\* if (group_info.ptr && !group_info.can_be_taken_from) continue;
SkipGroup(info) == info.ptr # NullGroup /\ ~info.can_be_taken_from

\* (mutation) the timers block pushes without calling entity->call()
NeedsClaimNever(k) == FALSE

\* only the timers block calls entity->call() before the push
NeedsClaim(k) == k = "timer"

\* TimerBase::call(): true iff this caller claims the pending firing
TimerCall(t) == due[t]

\* Waitable::take_data(): the payload of the readiness event
TakeData(w) == HandleOf(w) * 10 + taken[w] + 1

\* (mutation) take_data() runs as soon as is_ready returned true
TakeWhenReady(r, skip) == r

\* take_data() runs only in the push, after is_ready and the admission check
TakeWhen(r, skip) == r /\ ~skip

\* (mutation) push_front
PushFront(q, item) == <<item>> \o q

\* executables.push_back(item)
PushBack(q, item) == Append(q, item)

\* `added` after a push in block k (the services block has no added++)
AddedAfter(k, n) == IF k = "service" THEN n ELSE n + 1

\* what one loop iteration of a handle-indexed block does with element h
Outcome(th, k, h) ==
  LET base == [NoStep EXCEPT !.kind = k, !.handle = h] IN
  IF h = NullHandle THEN base
  ELSE IF h \notin Keys(collection[k]) THEN [base EXCEPT !.ready = TRUE]
  ELSE
    LET en == Find(collection[k], h)
        b1 == [base EXCEPT !.ready = TRUE, !.found = TRUE, !.group = en.callback_group]
    IN
    IF LockFailed(en.entity) THEN b1
    ELSE
      LET info == Cached(GroupCache(group_map[th], en.callback_group), en.callback_group)
          b2 == [b1 EXCEPT !.alive = TRUE, !.consulted = TRUE, !.ptr = info.ptr,
                           !.can_be_taken_from = info.can_be_taken_from]
      IN
      IF SkipGroup(info) THEN b2
      ELSE IF NeedsClaim(k)
           THEN [b2 EXCEPT !.called = TRUE, !.claimed = TimerCall(en.entity),
                           !.pushed = TimerCall(en.entity)]
           ELSE [b2 EXCEPT !.pushed = TRUE]

\* what one iteration of the waitables loop does with entry h when is_ready gives r
WaitableOutcome(th, h, r) ==
  LET en == Find(collection["waitable"], h)
      base == [NoStep EXCEPT !.kind = "waitable", !.handle = h, !.found = TRUE,
                             !.group = en.callback_group]
  IN
  IF LockFailed(en.entity) THEN base
  ELSE IF ~r THEN [base EXCEPT !.alive = TRUE,
                               !.data = IF TakeWhen(r, FALSE)
                                        THEN TakeData(en.entity) ELSE NoData]
  ELSE
    LET info == Cached(GroupCache(group_map[th], en.callback_group), en.callback_group)
        b2 == [base EXCEPT !.alive = TRUE, !.ready = TRUE, !.consulted = TRUE,
                           !.ptr = info.ptr,
                           !.can_be_taken_from = info.can_be_taken_from,
                           !.data = IF TakeWhen(r, SkipGroup(info))
                                    THEN TakeData(en.entity) ELSE NoData]
    IN
    IF SkipGroup(info) THEN b2
    ELSE [b2 EXCEPT !.pushed = TRUE]

\* the state change of one loop iteration with outcome o on the entity e
Apply(th, k, e, o) ==
  /\ group_map' = [group_map EXCEPT ![th] =
                     IF o.consulted THEN GroupCache(@, o.group) ELSE @]
  /\ executables' = [executables EXCEPT ![th] =
                       IF o.pushed
                       THEN PushBack(@, [kind |-> k, entity |-> e, callback_group |-> o.ptr,
                                         data |-> o.data])
                       ELSE @]
  /\ added' = [added EXCEPT ![th] = IF o.pushed THEN AddedAfter(k, @) ELSE @]
  /\ due' = IF o.claimed THEN [due EXCEPT ![e] = FALSE] ELSE due
  /\ claims' = IF o.claimed THEN [claims EXCEPT ![e] = @ + 1] ELSE claims
  /\ ncall' = [ncall EXCEPT ![th] = IF o.called THEN @ + 1 ELSE @]
  /\ taken' = IF o.data # NoData THEN [taken EXCEPT ![e] = @ + 1] ELSE taken
  /\ ntake' = IF o.data # NoData THEN [ntake EXCEPT ![th][e] = @ + 1] ELSE ntake
  /\ ii' = [ii EXCEPT ![th] = @ + 1]
  /\ seen' = [seen EXCEPT ![th] = @ \cup ({o.handle} \ {NullHandle})]
  /\ dup' = [dup EXCEPT ![th] = @ \/ (o.handle # NullHandle /\ o.handle \in seen[th])]
  /\ last' = [last EXCEPT ![th] = o]

EntityOfHandle(k, h) ==
  IF h \in Keys(collection[k]) THEN Find(collection[k], h).entity ELSE "t1"

\* entry of ready_executables, up to the first block
ResolveStart(th) ==
  \E kd \in ResultKinds :
    /\ ~InPass(th)
    /\ Calls < MaxCalls /\ Work < MaxWork
    /\ Len(executables[th]) <= MaxBacklog
    /\ passes' = [passes EXCEPT ![th] = @ + 1]
    /\ kindOfResult' = [kindOfResult EXCEPT ![th] = kd]
    /\ entry' = [entry EXCEPT ![th] = executables[th]]
    /\ ncall' = [ncall EXCEPT ![th] = 0]
    /\ nready' = [nready EXCEPT ![th] = 0]
    /\ ntake' = [ntake EXCEPT ![th] = [w \in Waitables |-> 0]]
    /\ last' = [last EXCEPT ![th] = NoStep]
    /\ seen' = [seen EXCEPT ![th] = {}]
    /\ dup' = [dup EXCEPT ![th] = FALSE]
    /\ touched' = [touched EXCEPT ![th] = {}]
    /\ ii' = [ii EXCEPT ![th] = 0]
    /\ group_map' = [group_map EXCEPT ![th] = {}]
    /\ IF ~ResultReady(kd)
       THEN /\ pc' = [pc EXCEPT ![th] = "done"]
            /\ ret' = [ret EXCEPT ![th] = 0]
            /\ added' = added
       ELSE /\ pc' = [pc EXCEPT ![th] = Kinds[1]]
            /\ added' = [added EXCEPT ![th] = 0]
            /\ ret' = ret
    /\ Disturb
    /\ UNCHANGED <<envVars, collVars, rebuilds, cycle, executables, worder, taken, claims,
                   slots>>

\* one iteration of the timers / subscriptions / services / clients loop
HandleStep(th) ==
  \E h \in HandlesOfKind(pc[th]) \cup {NullHandle} :
    /\ pc[th] \in KindSet \ {"waitable"}
    /\ slots < MaxSlots /\ Work < MaxWork
    /\ slots' = slots + 1
    /\ Apply(th, pc[th], EntityOfHandle(pc[th], h), Outcome(th, pc[th], h))
    /\ UNCHANGED <<groupOwned, entOwned, flag, fires, events, collVars, buildVars,
                   pc, ret, worder, kindOfResult, entry, passes, nready, touched>>

\* the loop of a handle-indexed block ends (ii reached the array size)
EndBlock(th) ==
  /\ pc[th] \in KindSet \ {"waitable"}
  /\ pc' = [pc EXCEPT ![th] = NextKind(pc[th])]
  /\ ii' = [ii EXCEPT ![th] = 0]
  /\ seen' = [seen EXCEPT ![th] = {}]
  /\ last' = [last EXCEPT ![th] = NoStep]
  /\ IF NextKind(pc[th]) = "waitable"
     THEN \E o \in Orders(Keys(collection["waitable"])) :
            worder' = [worder EXCEPT ![th] = o]
     ELSE worder' = worder
  /\ UNCHANGED <<envVars, collVars, buildVars, group_map, executables, added, ret,
                 kindOfResult, entry, dup, touched, passes, ncall, nready, ntake, taken,
                 claims, slots>>

\* one iteration of the loop over collection.waitables
WaitableStep(th) ==
  \E r \in BOOLEAN :
    /\ pc[th] = "waitable"
    /\ ii[th] < Len(worder[th])
    /\ LET h == worder[th][ii[th] + 1]
           e == Find(collection["waitable"], h).entity
       IN  /\ Apply(th, "waitable", e, WaitableOutcome(th, h, r))
           /\ nready' = [nready EXCEPT ![th] = IF EntityLive(e) THEN @ + 1 ELSE @]
    /\ UNCHANGED <<groupOwned, entOwned, flag, fires, events, collVars, buildVars,
                   pc, ret, worder, kindOfResult, entry, passes, slots, touched>>

\* return added; the locals (group_map) are destroyed
ResolveReturn(th) ==
  /\ pc[th] = "waitable"
  /\ ii[th] = Len(worder[th])
  /\ pc' = [pc EXCEPT ![th] = "done"]
  /\ ret' = [ret EXCEPT ![th] = added[th]]
  /\ group_map' = [group_map EXCEPT ![th] = {}]
  /\ ii' = [ii EXCEPT ![th] = 0]
  /\ worder' = [worder EXCEPT ![th] = <<>>]
  /\ seen' = [seen EXCEPT ![th] = {}]
  /\ last' = [last EXCEPT ![th] = NoStep]
  /\ UNCHANGED <<envVars, collVars, buildVars, executables, added, dup, touched,
                 kindOfResult, entry, passes, ncall, nready, ntake, taken, claims, slots>>

\* the executor takes the front AnyExecutable off its deque to run it
Dispatch(th) ==
  /\ ~InPass(th)
  /\ executables[th] # <<>>
  /\ executables' = [executables EXCEPT ![th] = Tail(@)]
  /\ pc' = [pc EXCEPT ![th] = "idle"]
  /\ entry' = [entry EXCEPT ![th] = <<>>]
  /\ added' = [added EXCEPT ![th] = 0]
  /\ ret' = [ret EXCEPT ![th] = 0]
  /\ kindOfResult' = [kindOfResult EXCEPT ![th] = "Empty"]
  /\ ncall' = [ncall EXCEPT ![th] = 0]
  /\ nready' = [nready EXCEPT ![th] = 0]
  /\ ntake' = [ntake EXCEPT ![th] = [w \in Waitables |-> 0]]
  /\ dup' = [dup EXCEPT ![th] = FALSE]
  /\ touched' = [touched EXCEPT ![th] = {}]
  /\ Disturb
  /\ UNCHANGED <<envVars, collVars, rebuilds, cycle, ii, group_map, worder,
                 seen, last, passes, taken, claims, slots>>

\* ---------------------------------------------------------------- specifications
\* one executor thread
Next ==
  \/ ReleaseGroup
  \/ ReleaseEntity
  \/ SetFlag
  \/ TimerExpire
  \/ BuildEntitiesCollection
  \/ ResolveStart(1)
  \/ HandleStep(1)
  \/ EndBlock(1)
  \/ WaitableStep(1)
  \/ ResolveReturn(1)
  \/ Dispatch(1)

Spec == Init /\ [][Next]_vars

\* rebuilds of the collection while groups and entities change
NextBuild ==
  \/ ReleaseGroup
  \/ ReleaseEntity
  \/ SetFlag
  \/ AddGuardCondition
  \/ ClearCollection
  \/ BuildEntitiesCollection

SpecBuild == Init /\ [][NextBuild]_vars

\* two executor threads resolving against the same collection
NextRace ==
  \/ TimerExpire
  \/ BuildEntitiesCollection
  \/ \E th \in Threads :
       \/ ResolveStart(th)
       \/ HandleStep(th)
       \/ EndBlock(th)
       \/ WaitableStep(th)
       \/ ResolveReturn(th)

SpecRace == Init /\ [][NextRace]_vars

\* ---------------------------------------------------------------- properties
\* the items the running (or just finished) call of th has appended
NewItems(th) ==
  SubSeq(executables[th], Len(entry[th]) + 1, Len(executables[th]))

\* this step is one loop iteration of ready_executables on thread th
Iteration(th) == InPass(th) /\ pc'[th] = pc[th] /\ ii'[th] = ii[th] + 1

\* the element the iteration read, and whether it was reported ready
ReadHandle(th) == last'[th].handle
ReadReady(th)  == last'[th].ready

\* the iteration read an indexed handle
ReadIndexed(th) == ReadHandle(th) \in Keys(collection[pc[th]])
ReadEntry(th)   == Find(collection[pc[th]], ReadHandle(th))

\* the iteration appended exactly this item at the back of the deque
Appended(th, e, g) ==
  /\ Len(executables'[th]) = Len(executables[th]) + 1
  /\ SubSeq(executables'[th], 1, Len(executables[th])) = executables[th]
  /\ LET it == executables'[th][Len(executables'[th])]
     IN  it.kind = pc[th] /\ it.entity = e /\ it.callback_group = g

\* the group's flag has not been written since the call of th began
FlagStable(th, g) == g \notin touched[th]

\* C1: an indexed entity whose live group has flag false is never appended; an
\* indexed, live, ready entity (a timer: with a firing to claim) whose live group
\* has flag true is appended with a strong reference to that group.  The flag is
\* the one the call reads, i.e. not written since the call began.
C1_AdmissionStep ==
  \A th \in {1} :
    (Iteration(th) /\ ReadIndexed(th)) =>
      LET en == ReadEntry(th)
          g  == en.callback_group
      IN  /\ (GroupLive(g) /\ ~flag[g] /\ FlagStable(th, g))
               => executables'[th] = executables[th]
          /\ ( /\ EntityLive(en.entity) /\ ReadReady(th)
               /\ GroupLive(g) /\ flag[g] /\ FlagStable(th, g)
               /\ (pc[th] = "timer" => due[en.entity]) )
               => Appended(th, en.entity, g)

C1_Admission == [][C1_AdmissionStep]_vars

\* C1 witness: a ready waitable was skipped because its live group has flag
\* false, in a call that has admitted an entity of a group with flag true
C1_Witness ==
  /\ InPass(1)
  /\ last[1].kind = "waitable" /\ last[1].alive /\ last[1].ready
  /\ last[1].ptr # NullGroup /\ ~last[1].can_be_taken_from /\ ~last[1].pushed
  /\ \E i \in 1..Len(NewItems(1)) :
       /\ NewItems(1)[i].callback_group # NullGroup
       /\ flag[NewItems(1)[i].callback_group]

\* C2 as stated: a live, ready entity whose group is expired is appended with a
\* null group, for all five kinds (timers included, whatever call() returns)
C2_AsStatedStep ==
  \A th \in {1} :
    (Iteration(th) /\ ReadIndexed(th)) =>
      LET en == ReadEntry(th)
      IN  (EntityLive(en.entity) /\ ReadReady(th) /\ ~GroupLive(en.callback_group))
            => Appended(th, en.entity, NullGroup)

C2_AsStated == [][C2_AsStatedStep]_vars

\* C2 amended: a live, ready entity whose group is expired is appended with a
\* null group whatever the flag was; a timer only when its call() succeeds
C2_ExpiredGroupStep ==
  \A th \in {1} :
    (Iteration(th) /\ ReadIndexed(th)) =>
      LET en == ReadEntry(th)
      IN  ( /\ EntityLive(en.entity) /\ ReadReady(th)
            /\ ~GroupLive(en.callback_group)
            /\ (pc[th] = "timer" => due[en.entity]) )
            => Appended(th, en.entity, NullGroup)

C2_ExpiredGroup == [][C2_ExpiredGroupStep]_vars

\* C2 witness: an entity was appended with a null group; its group had flag
\* false when it was destroyed
C2_Witness ==
  /\ InPass(1)
  /\ last[1].pushed /\ last[1].consulted /\ last[1].ptr = NullGroup
  /\ ~GroupLive(last[1].group) /\ ~flag[last[1].group]
  /\ executables[1][Len(executables[1])].callback_group = NullGroup

\* C3: a call whose wait result is not Ready returns 0, leaves the deque as it
\* was on entry, and calls neither call() nor is_ready() nor take_data()
C3_NotReady ==
  \A th \in {1} :
    kindOfResult[th] # "Ready" =>
      /\ ~InPass(th)
      /\ pc[th] = "done" =>
           /\ ret[th] = 0
           /\ executables[th] = entry[th]
           /\ ncall[th] = 0 /\ nready[th] = 0
           /\ \A w \in Waitables : ntake[th][w] = 0

\* C3 witness: such a call returned with items queued before it, a timer due and
\* a waitable in the collection
C3_Witness ==
  /\ pc[1] = "done" /\ kindOfResult[1] # "Ready"
  /\ entry[1] # <<>>
  /\ \E t \in Timers : due[t] /\ HandleOf(t) \in Keys(collection["timer"])
  /\ collection["waitable"] # {}

\* C4: a call appends at the back only, one item per iteration and for the
\* element just read, so the new items are in kind order (timers, subscriptions,
\* services, clients, waitables), in reading order within a kind, behind the
\* items that were queued on entry
C4_Queue ==
  \A th \in {1} :
    pc[th] # "idle" =>
      /\ Len(entry[th]) <= Len(executables[th])
      /\ SubSeq(executables[th], 1, Len(entry[th])) = entry[th]
      /\ \A i, j \in 1..Len(NewItems(th)) :
           i < j => KindIndex(NewItems(th)[i].kind) <= KindIndex(NewItems(th)[j].kind)

C4_Step ==
  \A th \in {1} :
    Iteration(th) =>
      \/ executables'[th] = executables[th]
      \/ /\ ReadIndexed(th)
         /\ Appended(th, ReadEntry(th).entity, executables'[th][Len(executables'[th])].callback_group)

C4_Order == [][C4_Step /\ C4_Queue']_vars

\* C4 witness: behind an item queued on entry, the call appended two different
\* subscriptions and then a waitable
C4_Witness ==
  /\ InPass(1) /\ entry[1] # <<>>
  /\ \E i, j, k \in 1..Len(NewItems(1)) :
       /\ i < j /\ j < k
       /\ NewItems(1)[i].kind = "subscription"
       /\ NewItems(1)[j].kind = "subscription"
       /\ NewItems(1)[i].entity # NewItems(1)[j].entity
       /\ NewItems(1)[k].kind = "waitable"

\* the positions of the rebuilt sequence whose group contributes handle h of kind k
Contributors(k, h) ==
  {i \in 1..Len(lastGroups) :
     /\ GroupLive(lastGroups[i]) /\ flag[lastGroups[i]]
     /\ \E e \in CollectAllPtrs(lastGroups[i]) : KindOf(e) = k /\ HandleOf(e) = h}

Min(S) == CHOOSE x \in S : \A y \in S : x <= y
Max(S) == CHOOSE x \in S : \A y \in S : x >= y

\* the mappings that hold an entry for entity e
MappingsOf(e) == {k \in KindSet : \E x \in collection[k] : x.entity = e}

\* C5: right after a rebuild, a live entity of a group of the sequence that is
\* live with flag true is in the mapping of its kind and in no other, once, under
\* its own handle; every other entity is in no mapping; nothing older is left,
\* guard_conditions included
C5_Rebuilt ==
  quiet =>
    /\ guard_conditions = {}
    /\ \A k \in KindSet : Cardinality(Keys(collection[k])) = Cardinality(collection[k])
    /\ \A e \in Entities :
         IF EntityLive(e) /\ Contributors(KindOf(e), HandleOf(e)) # {}
         THEN /\ MappingsOf(e) = {KindOf(e)}
              /\ \E x \in collection[KindOf(e)] :
                   /\ {y \in collection[KindOf(e)] : y.entity = e} = {x}
                   /\ x.handle = HandleOf(e)
                   /\ \E i \in Contributors(KindOf(e), HandleOf(e)) :
                        x.callback_group = lastGroups[i]
         ELSE MappingsOf(e) = {}

\* C5 witness: a second rebuild indexed some entity and left out the live
\* entities of a live group of the sequence whose flag is false
C5_Witness ==
  /\ quiet /\ rebuilds >= 2
  /\ \E e \in Entities : MappingsOf(e) # {}
  /\ \E i \in 1..Len(lastGroups) :
       /\ GroupLive(lastGroups[i]) /\ ~flag[lastGroups[i]]
       /\ \E e \in CollectAllPtrs(lastGroups[i]) : MappingsOf(e) = {}

\* C6 as stated: the entry of a handle contributed by several groups carries the
\* last contributing group of the sequence
C6_LastWins ==
  quiet =>
    \A k \in KindSet : \A x \in collection[k] :
      /\ Contributors(k, x.handle) # {}
      /\ x.callback_group = lastGroups[Max(Contributors(k, x.handle))]

\* C6 amended: insert keeps the entry that is there, so the entry carries the
\* first contributing group of the sequence
C6_FirstWins ==
  quiet =>
    \A k \in KindSet : \A x \in collection[k] :
      /\ Contributors(k, x.handle) # {}
      /\ x.callback_group = lastGroups[Min(Contributors(k, x.handle))]
      /\ x.entity \in Members(x.callback_group)
      /\ HandleOf(x.entity) = x.handle

\* C6 witness: a handle in the collection was contributed by two different groups
C6_Witness ==
  /\ quiet
  /\ \E k \in KindSet : \E x \in collection[k] :
       \E i, j \in Contributors(k, x.handle) : lastGroups[i] # lastGroups[j]

\* C7: a rebuild that repeats the one before it, with no flag or liveness change
\* in between, leaves every mapping as the first one left it
C7_Idempotent == twice => collection = prev

\* C7 witness: such a repeated rebuild over a non-empty collection
C7_Witness == twice /\ collection["subscription"] # {} /\ collection["timer"] # {}

\* the work items for timer t in the deques of all threads
RECURSIVE CountFor(_, _)
CountFor(q, e) ==
  IF q = <<>> THEN 0
  ELSE (IF Head(q).entity = e THEN 1 ELSE 0) + CountFor(Tail(q), e)

ItemsFor(t) == CountFor(executables[1], t) + CountFor(executables[2], t)

\* C8: call() returns true at most once per firing, so the deques of the two
\* threads hold at most one work item per firing of a timer
C8_ClaimOnce ==
  \A t \in Timers : claims[t] <= fires[t] /\ ItemsFor(t) <= fires[t]

\* C8 witness: two passes running at once both called call() on the same timer;
\* one got true and its item, the other false
C8_Witness ==
  /\ InPass(1) /\ InPass(2)
  /\ last[1].kind = "timer" /\ last[2].kind = "timer"
  /\ last[1].handle = last[2].handle
  /\ last[1].called /\ last[1].claimed /\ last[1].pushed
  /\ last[2].called /\ ~last[2].claimed /\ ~last[2].pushed

\* C9: in one call take_data() runs at most once per waitable, only for a live
\* waitable that is_ready and passes the admission check, and the item appended
\* for it carries that payload
C9_Taken ==
  \A th \in {1} :
    /\ \A w \in Waitables : ntake[th][w] <= 1
    /\ pc[th] # "idle" =>
         /\ \A w \in Waitables : ntake[th][w] = CountFor(NewItems(th), w)
         /\ \A i \in 1..Len(NewItems(th)) :
              LET it == NewItems(th)[i]
              IN  IF it.kind = "waitable"
                  THEN \E n \in 1..taken[it.entity] : it.data = HandleOf(it.entity) * 10 + n
                  ELSE it.data = NoData
    /\ \A i, j \in 1..Len(executables[th]) :
         (i # j /\ executables[th][i].kind = "waitable")
           => executables[th][i].data # executables[th][j].data

C9_Step ==
  \A th \in {1} :
    (Iteration(th) /\ pc[th] = "waitable") =>
      LET en == ReadEntry(th)
          w  == en.entity
          g  == en.callback_group
      IN  /\ taken'[w] # taken[w] =>
               /\ EntityLive(w) /\ ReadReady(th)
               /\ taken'[w] = taken[w] + 1
               /\ Appended(th, w, IF GroupLive(g) THEN g ELSE NullGroup)
               /\ executables'[th][Len(executables'[th])].data = HandleOf(w) * 10 + taken'[w]
          /\ (~ReadReady(th) \/ (GroupLive(g) /\ ~flag[g] /\ FlagStable(th, g)))
               => /\ taken' = taken
                  /\ executables'[th] = executables[th]

C9_PayloadOnce == [][C9_Step /\ C9_Taken']_vars

\* C9 witness: a waitable was appended with the payload of its second readiness
\* event, after a first call had taken the first
C9_Witness ==
  /\ InPass(1)
  /\ last[1].kind = "waitable" /\ last[1].pushed /\ last[1].data # NoData
  /\ \E w \in Waitables : taken[w] = 2 /\ ntake[1][w] = 1

\* C10 as stated: no two items appended by one call refer to the same entity,
\* even when an array of the wait result lists a handle twice
C10_NoDuplicates ==
  \A th \in {1} :
    pc[th] # "idle" =>
      \A i, j \in 1..Len(NewItems(th)) :
        i # j => NewItems(th)[i].entity # NewItems(th)[j].entity

\* C10 amended: no two items appended by one call refer to the same entity,
\* provided no array of the wait result lists a handle twice
C10_NoDuplicatesOfDistinct ==
  \A th \in {1} :
    (pc[th] # "idle" /\ ~dup[th]) =>
      \A i, j \in 1..Len(NewItems(th)) :
        i # j => NewItems(th)[i].entity # NewItems(th)[j].entity

\* C10 witness: a call over distinct handles appended three items
C10_Witness ==
  /\ InPass(1) /\ ~dup[1]
  /\ Len(NewItems(1)) >= 3
  /\ \E i, j \in 1..Len(NewItems(1)) :
       i # j /\ NewItems(1)[i].kind = NewItems(1)[j].kind

\* the element read by the iteration is an anomaly: a null handle, a handle with
\* no entry in the mapping of the block, or an entry whose entity is destroyed
Anomalous(th) ==
  \/ ReadHandle(th) = NullHandle
  \/ ~ReadIndexed(th)
  \/ ~EntityLive(ReadEntry(th).entity)

\* C11: an iteration that reads an anomaly appends nothing, counts nothing,
\* consults no group, calls neither call() nor take_data(), and leaves the call
\* in the same block, ready for the next element: all that later iterations
\* depend on is as if the element had not been there
C11_AnomalyStep ==
  \A th \in {1} :
    (Iteration(th) /\ Anomalous(th)) =>
      /\ executables'[th] = executables[th]
      /\ added'[th] = added[th]
      /\ group_map'[th] = group_map[th]
      /\ ~last'[th].consulted /\ ~last'[th].called /\ ~last'[th].pushed
      /\ ncall' = ncall /\ ntake' = ntake /\ taken' = taken
      /\ due' = due /\ claims' = claims
      /\ collection' = collection /\ flag' = flag
      /\ pc'[th] = pc[th] /\ InPass(th)'

C11_Anomaly == [][C11_AnomalyStep]_vars

\* C11 witness: in one block the call read the handle of an entity destroyed
\* after the rebuild, and then admitted another entity
C11_Witness ==
  /\ pc[1] \in KindSet
  /\ last[1].pushed
  /\ \E h \in seen[1] :
       /\ h # last[1].handle
       /\ h \in Keys(collection[pc[1]])
       /\ ~EntityLive(Find(collection[pc[1]], h).entity)

\* the record a first consultation of group g makes now
FreshRecord(g) ==
  [group |-> g,
   ptr |-> IF GroupLive(g) THEN g ELSE NullGroup,
   can_be_taken_from |-> IF GroupLive(g) THEN flag[g] ELSE FALSE]

\* the cache of a call holds one record per group, and none outside a call
C12_Cache ==
  \A th \in {1} :
    /\ \A c, d \in group_map[th] : c.group = d.group => c = d
    /\ ~InPass(th) => group_map[th] = {}

\* C12: the first iteration of a call that reaches the admission step for a
\* group records its liveness and flag as they are then; every later iteration of
\* the call for that group decides on the record (same liveness, same flag, same
\* group reference in the item) whatever the flag and the owner did meanwhile;
\* records stay as they are until the call returns, and a new call starts with
\* no record
C12_Step ==
  \A th \in {1} :
    /\ (InPass(th) /\ InPass(th)') => group_map[th] \subseteq group_map'[th]
    /\ (Iteration(th) /\ last'[th].consulted) =>
         LET g    == last'[th].group
             o    == last'[th]
             hit  == \E c \in group_map[th] : c.group = g
             info == IF hit THEN Cached(group_map[th], g) ELSE FreshRecord(g)
         IN  /\ group_map'[th] = IF hit THEN group_map[th]
                                  ELSE group_map[th] \cup {FreshRecord(g)}
             /\ o.ptr = info.ptr
             /\ o.can_be_taken_from = info.can_be_taken_from
             /\ (info.ptr # NullGroup /\ ~info.can_be_taken_from) => ~o.pushed
             /\ ((info.ptr = NullGroup \/ info.can_be_taken_from) /\ pc[th] # "timer")
                  => o.pushed
             /\ o.pushed => Appended(th, ReadEntry(th).entity, info.ptr)

C12_Snapshot == [][C12_Step /\ C12_Cache']_vars

\* C12 witness: the call admitted two entities of one group on a record that
\* says flag true, while the flag of the group, written during the call, is false
C12_Witness ==
  /\ InPass(1)
  /\ last[1].consulted /\ last[1].pushed
  /\ last[1].ptr # NullGroup /\ last[1].can_be_taken_from
  /\ last[1].group \in touched[1] /\ ~flag[last[1].group]
  /\ \E i, j \in 1..Len(NewItems(1)) :
       /\ i < j /\ j = Len(NewItems(1))
       /\ NewItems(1)[i].callback_group = last[1].group
       /\ NewItems(1)[j].callback_group = last[1].group

\* C13: an iteration of the timers block invokes call() at most once, and only
\* for a handle found in the mapping whose entity upgraded and whose group
\* passed the admission check; a timer whose live group is recorded with flag
\* false is not claimed and keeps its pending firing; a call() that returns
\* false appends nothing; a call() that returns true appends exactly one item
\* (the timer, the recorded group reference, no payload)
C13_Step ==
  \A th \in {1} :
    (Iteration(th) /\ pc[th] = "timer") =>
      LET o == last'[th] IN
      /\ ncall'[th] = ncall[th] + (IF o.called THEN 1 ELSE 0)
      /\ o.called =>
           /\ ReadHandle(th) # NullHandle /\ ReadIndexed(th)
           /\ EntityLive(ReadEntry(th).entity)
           /\ o.consulted
           /\ o.ptr = NullGroup \/ o.can_be_taken_from
      /\ (o.consulted /\ o.ptr # NullGroup /\ ~o.can_be_taken_from) =>
           /\ ~o.called
           /\ due' = due /\ claims' = claims
           /\ executables'[th] = executables[th]
      /\ ~o.called => (due' = due /\ claims' = claims /\ ~o.pushed)
      /\ (o.called /\ ~o.claimed) =>
           /\ executables'[th] = executables[th]
           /\ added'[th] = added[th]
           /\ claims' = claims
      /\ (o.called /\ o.claimed) =>
           LET t == ReadEntry(th).entity IN
           /\ Appended(th, t, o.ptr)
           /\ executables'[th][Len(executables'[th])].data = NoData
           /\ claims'[t] = claims[t] + 1
      /\ o.pushed <=> (o.called /\ o.claimed)

C13_ClaimOrder == [][C13_Step]_vars

\* C13 witness: a due timer was read whose live group is recorded with flag
\* false: call() was not invoked and the firing is still pending
C13_Witness ==
  /\ pc[1] = "timer"
  /\ last[1].kind = "timer" /\ last[1].alive /\ last[1].consulted
  /\ last[1].ptr # NullGroup /\ ~last[1].can_be_taken_from
  /\ ~last[1].called /\ ncall[1] = 0
  /\ \E t \in Timers : HandleOf(t) = last[1].handle /\ due[t] /\ claims[t] = 0

\* C14 as stated: a call against the index admits no entity held by a group
\* that the latest rebuild found live with flag false
C14_AsStatedStep ==
  \A th \in {1} :
    (Iteration(th) /\ last'[th].pushed) =>
      \A g \in Groups :
        cycle[g] = "skipped" => ReadEntry(th).entity \notin Members(g)

C14_AsStated == [][C14_AsStatedStep]_vars

\* no entry of the index is owned by a group that the latest rebuild skipped
C14_Index ==
  \A k \in KindSet : \A x \in collection[k] :
    /\ cycle[x.callback_group] # "skipped"
    /\ x.entity \in Members(x.callback_group)

\* C14 amended: until the next rebuild no call admits an entity on behalf of a
\* group that the latest rebuild found live with flag false, whatever its flag
\* is by then: an admitted entity is indexed under a group that was not skipped
\* (an entity that a skipped group shares with an indexed group is admitted
\* under the indexed one).  A rebuild that finds the group live with flag true
\* indexes its live entities again, and a following call admits an entity
\* indexed under the group when the admission rule of the call allows it
C14_Step ==
  /\ \A th \in {1} :
       (Iteration(th) /\ last'[th].pushed) =>
         LET en == ReadEntry(th) IN
         /\ ReadIndexed(th)
         /\ cycle[en.callback_group] # "skipped"
         /\ en.entity \in Members(en.callback_group)
         /\ executables'[th][Len(executables'[th])].callback_group
              \in {en.callback_group, NullGroup}
  /\ \A th \in {1} :
       (Iteration(th) /\ ReadIndexed(th)) =>
         LET en == ReadEntry(th)
             g  == en.callback_group
         IN  ( /\ cycle[g] = "back"
               /\ EntityLive(en.entity) /\ ReadReady(th)
               /\ GroupLive(g) /\ flag[g] /\ FlagStable(th, g)
               /\ (pc[th] = "timer" => due[en.entity]) )
               => Appended(th, en.entity, g)
  /\ rebuilds' # rebuilds =>
       \A g \in Groups :
         cycle'[g] = "back" =>
           \A e \in Members(g) :
             EntityLive(e) => HandleOf(e) \in Keys(collection'[KindOf(e)])

C14_Cycle == [][C14_Step /\ C14_Index']_vars

\* C14 witness: a group was skipped by the latest rebuild, its flag is true
\* again, and the call read the handle of one of its entities, which no other
\* group holds: the handle has no entry and nothing was appended for it
C14_Witness ==
  /\ InPass(1)
  /\ \E k \in KindSet : collection[k] # {}
  /\ \E g \in Groups :
       /\ cycle[g] = "skipped" /\ GroupLive(g) /\ flag[g]
       /\ \E e \in Members(g) :
            /\ \A g2 \in Groups \ {g} : e \notin Members(g2)
            /\ EntityLive(e)
            /\ last[1].handle = HandleOf(e) /\ last[1].kind = KindOf(e)
            /\ ~last[1].found /\ ~last[1].pushed

\* a group skipped by one rebuild was indexed by the next, and a call admitted
\* one of its entities under it
C14_Readmitted ==
  /\ InPass(1)
  /\ last[1].pushed /\ last[1].ptr # NullGroup
  /\ cycle[last[1].ptr] = "back"

\* this step belongs to a call of ready_executables on thread th
CallStep(th) ==
  \/ passes'[th] # passes[th]
  \/ InPass(th) /\ (pc'[th] # pc[th] \/ ii'[th] # ii[th])

\* C15: a step of build_entities_collection or of ready_executables leaves the
\* flag of every group as it was, so a flag changes only in a step of the
\* dispatcher; a step of ready_executables also leaves every mapping of the
\* collection, and guard_conditions, as they were
C15_Step ==
  /\ rebuilds' # rebuilds => flag' = flag
  /\ \A th \in {1} :
       CallStep(th) =>
         /\ flag' = flag
         /\ collection' = collection
         /\ guard_conditions' = guard_conditions
  /\ flag' # flag =>
       /\ events' = events + 1
       /\ rebuilds' = rebuilds /\ passes' = passes
       /\ pc' = pc /\ ii' = ii
       /\ collection' = collection
       /\ Cardinality({g \in Groups : flag'[g] # flag[g]}) = 1

C15_ReadOnly == [][C15_Step]_vars

\* C15 witness: a rebuild examined a live group with flag false, and a call
\* against that index has consulted a group and admitted an entity; the flag of
\* the skipped group is still false
C15_Witness ==
  /\ InPass(1) /\ rebuilds >= 1
  /\ last[1].consulted /\ last[1].pushed
  /\ \E g \in Groups : cycle[g] = "skipped" /\ GroupLive(g) /\ ~flag[g]
  /\ \E k \in KindSet : collection[k] # {}

\* every one of the five mappings is empty
AllMappingsEmpty == \A k \in KindSet : collection[k] = {}

\* C16 as stated: empty() is true exactly when the five mappings are empty
C16_AsStated == Empty <=> AllMappingsEmpty

\* this step is a call of clear()
ClearStep ==
  /\ rebuilds' = rebuilds /\ events' = events
  /\ guard_conditions' = {}
  /\ <<collection, guard_conditions>>' # <<collection, guard_conditions>>

\* C16 amended: empty() is true exactly when the five mappings and
\* guard_conditions are all empty; it is true right after a rebuild over no
\* live group with flag true
C16_EmptyNow ==
  /\ Empty <=> (AllMappingsEmpty /\ guard_conditions = {})
  /\ ( /\ quiet
       /\ \A i \in 1..Len(lastGroups) :
            ~(GroupLive(lastGroups[i]) /\ flag[lastGroups[i]]) )
       => Empty

\* ... and right after clear()
C16_EmptyIff == [][C16_EmptyNow' /\ (ClearStep => Empty')]_vars

\* C16 witness: after a rebuild that indexed nothing, a guard condition was
\* registered: the five mappings are empty and empty() is false
C16_Witness ==
  /\ rebuilds >= 1
  /\ AllMappingsEmpty /\ guard_conditions # {}
  /\ ~Empty

\* the items of kind k in a queue
RECURSIVE CountKind(_, _)
CountKind(q, k) ==
  IF q = <<>> THEN 0
  ELSE (IF Head(q).kind = k THEN 1 ELSE 0) + CountKind(Tail(q), k)

\* C17 as stated: the value a call returns is the number of items it appended
\* (queue length after minus queue length before)
C17_ReturnCount ==
  \A th \in {1} :
    pc[th] = "done" => ret[th] = Len(executables[th]) - Len(entry[th])

\* what the code returns: the appended items that are not services
C17_ReturnsAllButServices ==
  \A th \in {1} :
    pc[th] = "done" =>
      ret[th] = Len(NewItems(th)) - CountKind(NewItems(th), "service")

\* a call that admitted a service and another entity has returned
C17_ServiceAdmitted ==
  /\ pc[1] = "done" /\ kindOfResult[1] = "Ready"
  /\ CountKind(NewItems(1), "service") = 1
  /\ Len(NewItems(1)) = 2 /\ ret[1] = 1

====
